---- MODULE Spec2Model ----
(***************************************************************************)
(* Model of src/cargo.rs of test-cdylib: construction of the cargo build   *)
(* command, its execution, the parsing of cargo's JSON message stream and  *)
(* the selection of the produced dynamic library.                          *)
(*                                                                         *)
(* Text is modelled as a sequence of tokens: a path such as                *)
(* target/libfoo.so is <<"target", "/", "libfoo", ".", "so">>, where "/"   *)
(* is the separator, "." a single dot and every other token a run of       *)
(* characters holding neither.  A command-line argument is a token         *)
(* sequence as well.                                                       *)
(*                                                                         *)
(* The captured standard output is a sequence of lines, each of one shape: *)
(* one of cargo's messages, text that is not JSON, JSON of no known        *)
(* message shape, or bytes that are not UTF-8.  Message::parse_stream      *)
(* turns each line into the item parse_output sees.                        *)
(***************************************************************************)
EXTENDS Integers, Sequences, FiniteSets, TLC

VARIABLES
    request,   \* the entry point called, with its feature list and example name
    probe,     \* outcome of `cargo --version --offline`
    args,      \* arguments of the build command, in order
    spawned,   \* whether the build process could be started
    status,    \* result.status.success()
    stdout,    \* result.stdout, line by line
    pos,       \* index of the next line the loop of parse_output takes
    artifact,  \* the local `artifact` of parse_output
    stderr,    \* diagnostics written by eprintln!, in order
    result,    \* the value returned to the caller
    pc         \* position in the pipeline

vars == <<request, probe, args, spawned, status, stdout, pos, artifact, stderr, result, pc>>

-----------------------------------------------------------------------------
(* Bounds *)

MaxLen == 4        \* longest message stream of the stream-structure family
MaxFiles == 3      \* longest filename list of an artifact of the selection family
MaxFeatures == 2   \* longest feature list
MaxBuildLen == 1   \* longest message stream of a full build run

SeqsUpTo(S, n) == UNION {[1..k -> S] : k \in 0..n}

-----------------------------------------------------------------------------
(* Paths *)

P_so == <<"target", "/", "libfoo", ".", "so">>
P_dll == <<"foo", ".", "dll">>
P_dylib == <<"libfoo", ".", "dylib">>
P_rel == <<".", "/", "target", "/", ".", ".", "/", "libfoo", ".", "so">>
P_d == <<"libfoo", ".", "d">>
P_rlib == <<"libfoo", ".", "rlib">>
P_noext == <<"target", "/", "foo">>
P_hidden == <<"target", "/", ".", "so">>
P_ver == <<"libfoo", ".", "so", ".", "1">>
P_dir == <<"out", ".", "so", "/", "foo">>
P_trail == <<"out", ".", "so", "/", "/">>
P_curdir == <<"target", "/", "foo", ".", "dll", "/", ".">>
P_parent == <<"libfoo", ".", "so", "/", ".", ".">>

Paths ==
    {P_so, P_dll, P_dylib, P_rel, P_d, P_rlib, P_noext, P_hidden, P_ver, P_dir,
     P_trail, P_curdir, P_parent}

\* Index of the last occurrence of token t in s, 0 when there is none.
LastIndexOf(s, t) ==
    LET I == {i \in 1..Len(s) : s[i] = t}
    IN IF I = {} THEN 0 ELSE CHOOSE i \in I : \A j \in I : j <= i

\* The pieces of s between the occurrences of sep, empty pieces included.
RECURSIVE Split(_, _)
Split(s, sep) ==
    LET I == {i \in 1..Len(s) : s[i] = sep}
    IN IF I = {} THEN <<s>>
       ELSE LET k == CHOOSE i \in I : \A j \in I : i <= j
            IN <<SubSeq(s, 1, k - 1)>> \o Split(SubSeq(s, k + 1, Len(s)), sep)

\* The normal and parent-directory components of a path: repeated and trailing
\* separators and "." components do not count (the root and a leading "." are
\* components too, but never a file name).
components(path) ==
    SelectSeq(Split(path, "/"), LAMBDA c : c # <<>> /\ c # <<".">>)

NoName == [some |-> FALSE, name |-> <<>>]

\* file_name(): the last component when it is a normal one; none when the path
\* ends in "..", or has no component but the root or ".".
file_name(path) ==
    LET c == components(path)
    IN IF c = <<>> \/ c[Len(c)] = <<".", ".">>
       THEN NoName
       ELSE [some |-> TRUE, name |-> c[Len(c)]]

NoExtension == [some |-> FALSE, ext |-> <<>>]

\* filename.extension(): the part of the file name after its last dot; none
\* when there is no file name, the name has no dot, or has nothing before its
\* last dot.
extension(path) ==
    LET f == file_name(path)
        k == LastIndexOf(f.name, ".")
    IN IF ~f.some \/ k = 0 \/ k = 1
       THEN NoExtension
       ELSE [some |-> TRUE, ext |-> SubSeq(f.name, k + 1, Len(f.name))]

IsCdylibNoDll(e) == e.some /\ e.ext \in {<<"dylib">>, <<"so">>}

\* The match of the filter closure.
IsCdylib(e) == e.some /\ e.ext \in {<<"dll">>, <<"dylib">>, <<"so">>}

-----------------------------------------------------------------------------
(* Results *)

NoPath == <<>>
Pending == [kind |-> "Pending", path |-> NoPath]
Ok(path) == [kind |-> "Ok", path |-> path]
Err(kind) == [kind |-> kind, path |-> NoPath]

None == [some |-> FALSE, filenames |-> <<>>]
Some(a) == [some |-> TRUE, filenames |-> a.filenames]

-----------------------------------------------------------------------------
(* Lines and messages *)

Diagnostics == {"warning: unused variable", "error: mismatched types"}

\* The lines of result.stdout, by shape.
Line(shape, text, filenames) == [shape |-> shape, text |-> text, filenames |-> filenames]
MessageLine(text) == Line("compiler-message", text, <<>>)
ArtifactLine(filenames) == Line("compiler-artifact", "", filenames)
FinishedLine == Line("build-finished", "", <<>>)
NotJsonLine == Line("not-json", "", <<>>)
UnknownShapeLine == Line("unknown-shape", "", <<>>)
InvalidUtf8Line == Line("invalid-utf8", "", <<>>)

\* The items of Message::parse_stream.
CompilerMessage(text) == [kind |-> "CompilerMessage", text |-> text, filenames |-> <<>>]
CompilerArtifact(filenames) == [kind |-> "CompilerArtifact", text |-> "", filenames |-> filenames]
\* Any other message of cargo (build-script-executed, build-finished, ...).
OtherMessage == [kind |-> "Other", text |-> "", filenames |-> <<>>]
\* Message::TextLine: a line that did not deserialize as a message.
TextLine == [kind |-> "TextLine", text |-> "", filenames |-> <<>>]
\* An item that is an error instead of a message.
StreamError == [kind |-> "Err", text |-> "", filenames |-> <<>>]

\* The item Message::parse_stream yields for a line: the message it holds; a
\* text line when it does not deserialize as one; an error when reading the
\* line fails.
parse_stream(line) ==
    CASE line.shape = "compiler-message" -> CompilerMessage(line.text)
      [] line.shape = "compiler-artifact" -> CompilerArtifact(line.filenames)
      [] line.shape = "build-finished" -> OtherMessage
      [] line.shape \in {"not-json", "unknown-shape"} -> TextLine
      [] line.shape = "invalid-utf8" -> StreamError

PoolLines ==
    {MessageLine(t) : t \in Diagnostics}
    \cup {FinishedLine, NotJsonLine, UnknownShapeLine, InvalidUtf8Line}
    \cup {ArtifactLine(<<P_so>>), ArtifactLine(<<P_d, P_rlib>>), ArtifactLine(<<P_d, P_dll>>)}

\* Streams of any shape over a small pool of lines.
StructStreams == SeqsUpTo(PoolLines, MaxLen)

\* Streams ending in an artifact with any filename list, after at most one line.
SelectStreams ==
    {pre \o <<ArtifactLine(fl)>> :
        pre \in SeqsUpTo(PoolLines, 1), fl \in SeqsUpTo(Paths, MaxFiles)}

Streams == StructStreams \cup SelectStreams

-----------------------------------------------------------------------------
(* parse_output *)

\* eprintln!("{}", m)
Eprintln(err, text) == Append(err, text)

StoreFirst(old, a) == IF old.some THEN old ELSE Some(a)

\* artifact = Some(a)
StoreArtifact(old, a) == Some(a)

SelectLast(filenames) ==
    LET M == {i \in 1..Len(filenames) : IsCdylib(extension(filenames[i]))}
    IN IF M = {} THEN Err("CdylibNotFound")
       ELSE Ok(filenames[CHOOSE i \in M : \A j \in M : j <= i])

\* filenames.into_iter().filter(..).next().ok_or(CdylibNotFound).map(into_std_path_buf)
SelectCdylib(filenames) ==
    LET matching == SelectSeq(filenames, LAMBDA f : IsCdylib(extension(f)))
    IN IF matching = <<>> THEN Err("CdylibNotFound") ELSE Ok(Head(matching))

FinishArtifactFirst(st, art) ==
    IF art.some THEN SelectCdylib(art.filenames) ELSE Err("CargoFail")

FinishNoneNotFound(st, art) ==
    IF ~st THEN Err("CargoFail")
    ELSE IF art.some THEN SelectCdylib(art.filenames) ELSE Err("CdylibNotFound")

\* The code of parse_output after its loop.
Finish(st, art) ==
    IF ~st THEN Err("CargoFail")
    ELSE IF art.some THEN SelectCdylib(art.filenames) ELSE Err("CargoFail")

Parsing == pc = "parse" /\ pos <= Len(stdout)

\* The item the loop takes next.
message == parse_stream(stdout[pos])

\* message? on an error item: parse_output returns the error.
ParseError ==
    /\ Parsing
    /\ message.kind = "Err"
    /\ result' = Err("MessageDecodeError")
    /\ pc' = "done"
    /\ UNCHANGED <<request, probe, args, spawned, status, stdout, pos, artifact, stderr>>

\* Message::CompilerMessage(m) => eprintln!("{}", m)
ParseCompilerMessage ==
    /\ Parsing
    /\ message.kind = "CompilerMessage"
    /\ stderr' = Eprintln(stderr, message.text)
    /\ pos' = pos + 1
    /\ UNCHANGED <<request, probe, args, spawned, status, stdout, artifact, result, pc>>

\* Message::CompilerArtifact(a) => artifact = Some(a)
ParseCompilerArtifact ==
    /\ Parsing
    /\ message.kind = "CompilerArtifact"
    /\ artifact' = StoreArtifact(artifact, message)
    /\ pos' = pos + 1
    /\ UNCHANGED <<request, probe, args, spawned, status, stdout, stderr, result, pc>>

\* _ => ()
ParseOther ==
    /\ Parsing
    /\ message.kind \in {"Other", "TextLine"}
    /\ pos' = pos + 1
    /\ UNCHANGED <<request, probe, args, spawned, status, stdout, artifact, stderr, result, pc>>

\* The stream is exhausted: the exit status, then the retained artifact.
ParseFinish ==
    /\ pc = "parse"
    /\ pos > Len(stdout)
    /\ result' = Finish(status, artifact)
    /\ pc' = "done"
    /\ UNCHANGED <<request, probe, args, spawned, status, stdout, pos, artifact, stderr>>

NoFeatures == [some |-> FALSE, list |-> <<>>]

\* parse_output called on an Output
Init ==
    /\ request = [entry |-> "parse_output", features |-> NoFeatures, name |-> <<>>]
    /\ probe = "none"
    /\ args = <<>>
    /\ spawned = "ok"
    /\ status \in BOOLEAN
    /\ stdout \in Streams
    /\ pos = 1
    /\ artifact = None
    /\ stderr = <<>>
    /\ result = Pending
    /\ pc = "parse"

Next ==
    \/ ParseError
    \/ ParseCompilerMessage
    \/ ParseCompilerArtifact
    \/ ParseOther
    \/ ParseFinish

Spec == Init /\ [][Next]_vars

-----------------------------------------------------------------------------
(* Command construction *)

FeatureNames == {<<"a">>, <<"b">>}

\* The Option<Vec<String>> of project.features or features::find()
FeatureOptions ==
    {NoFeatures} \cup {[some |-> TRUE, list |-> l] : l \in SeqsUpTo(FeatureNames, MaxFeatures)}

ExampleNames == {<<"example_one">>}

Entries == {"build_cdylib", "build_self_cdylib", "build_example"}

RECURSIVE JoinReversed(_, _)
JoinReversed(list, sep) ==
    IF list = <<>> THEN <<>>
    ELSE IF Len(list) = 1 THEN list[1]
    ELSE JoinReversed(Tail(list), sep) \o <<sep>> \o list[1]

\* features.join(","): the strings of the list, in order, with sep between them.
RECURSIVE Join(_, _)
Join(list, sep) ==
    IF list = <<>> THEN <<>>
    ELSE IF Len(list) = 1 THEN list[1]
    ELSE list[1] \o <<sep>> \o Join(Tail(list), sep)

feature_args(features) ==
    IF features.some
    THEN << <<"--no-default-features">>, <<"--features">>, Join(features.list, ",") >>
    ELSE <<>>

OfflineWhenLaunched(outcome) == outcome # "spawn_error"

\* .output().ok().map_or(false, |res| res.status.success())
cargo_supports_offline(outcome) == outcome = "exit_success"

\* The arguments cargo_build gives the command, after the probe ended in `outcome`.
cargo_build(features, outcome) ==
    (IF cargo_supports_offline(outcome) THEN << <<"--offline">> >> ELSE <<>>)
    \o << <<"build">>, <<"--message-format=json">> >>
    \o feature_args(features)

\* The arguments each entry point adds to those of cargo_build.
entry_args(req) ==
    CASE req.entry = "build_cdylib" -> <<>>
      [] req.entry = "build_self_cdylib" -> << <<"--lib">> >>
      [] req.entry = "build_example" -> << <<"--example">>, req.name >>

ProbeOutcomes == {"spawn_error", "exit_failure", "exit_success"}

\* cargo_supports_offline runs `cargo --version --offline`.
Probe ==
    /\ pc = "start"
    /\ \E outcome \in ProbeOutcomes : probe' = outcome
    /\ pc' = "probed"
    /\ UNCHANGED <<request, args, spawned, status, stdout, pos, artifact, stderr, result>>

\* cargo_build(..) and the arguments of the entry point.
BuildCommand ==
    /\ pc = "probed"
    /\ args' = cargo_build(request.features, probe) \o entry_args(request)
    /\ pc' = "built"
    /\ UNCHANGED <<request, probe, spawned, status, stdout, pos, artifact, stderr, result>>

OutputSpawnErrorAsFailure ==
    /\ pc = "built"
    /\ spawned' = "error"
    /\ status' = FALSE
    /\ pc' = "parse"
    /\ UNCHANGED <<request, probe, args, stdout, pos, artifact, stderr, result>>

\* .output().map_err(Error::Cargo)? when the process cannot be started
OutputSpawnError ==
    /\ pc = "built"
    /\ spawned' = "error"
    /\ result' = Err("Cargo")
    /\ pc' = "done"
    /\ UNCHANGED <<request, probe, args, status, stdout, pos, artifact, stderr>>

BuildStreams == SeqsUpTo(PoolLines, MaxBuildLen)

\* .output() of a process that ran: its exit status and captured stdout go to parse_output
OutputCaptured ==
    /\ pc = "built"
    /\ spawned' = "ok"
    /\ status' \in BOOLEAN
    /\ stdout' \in BuildStreams
    /\ pc' = "parse"
    /\ UNCHANGED <<request, probe, args, pos, artifact, stderr, result>>

\* A call of build_cdylib, build_self_cdylib or build_example
InitBuild ==
    /\ request \in
         {[entry |-> e, features |-> f, name |-> <<>>] :
            e \in Entries \ {"build_example"}, f \in FeatureOptions}
         \cup {[entry |-> "build_example", features |-> f, name |-> n] :
            f \in FeatureOptions, n \in ExampleNames}
    /\ probe = "none"
    /\ args = <<>>
    /\ spawned = "none"
    /\ status = FALSE
    /\ stdout = <<>>
    /\ pos = 1
    /\ artifact = None
    /\ stderr = <<>>
    /\ result = Pending
    /\ pc = "start"

NextBuild ==
    \/ Probe
    \/ BuildCommand
    \/ OutputSpawnError
    \/ OutputCaptured
    \/ ParseError
    \/ ParseCompilerMessage
    \/ ParseCompilerArtifact
    \/ ParseOther
    \/ ParseFinish

SpecBuild == InitBuild /\ [][NextBuild]_vars

-----------------------------------------------------------------------------
(* Properties of parse_output, stated over the stream it was given *)

\* No line of s makes Message::parse_stream yield an error.
WellFormed(s) == \A i \in 1..Len(s) : s[i].shape # "invalid-utf8"

ArtifactIndexes(s) == {i \in 1..Len(s) : s[i].shape = "compiler-artifact"}

MaxOf(I) == CHOOSE i \in I : \A j \in I : j <= i
MinOf(I) == CHOOSE i \in I : \A j \in I : i <= j

\* A line that is not valid JSON (bytes that are not UTF-8 included), or valid
\* JSON of no known message shape.
Undecodable(line) == line.shape \in {"not-json", "unknown-shape", "invalid-utf8"}

\* The lines of s located before its first undecodable line (all of s when it
\* has none).
Decodable(s) ==
    LET E == {i \in 1..Len(s) : Undecodable(s[i])}
    IN IF E = {} THEN s ELSE SubSeq(s, 1, MinOf(E) - 1)

\* The texts of the diagnostics of s, in stream order.
DiagnosticTexts(s) ==
    LET d == SelectSeq(s, LAMBDA m : m.shape = "compiler-message")
    IN [i \in 1..Len(d) |-> d[i].text]

\* The paths a shared library is expected under, and those it is not.
SharedLibraryPaths == {P_so, P_dll, P_dylib, P_rel, P_trail, P_curdir}

Returned == pc = "done" /\ request.entry = "parse_output"

\* C1 (as claimed): whatever the stream, a failed exit status makes parse_output
\* return CargoFail.
C1_FailureAlwaysBuildFailed ==
    (Returned /\ ~status) => result = Err("CargoFail")

\* C1 (amended): when every item of the stream decodes, a failed exit status makes
\* parse_output return CargoFail, also when the stream holds an artifact message
\* that lists a shared library.
C1_FailureBuildFailedWhenWellFormed ==
    (Returned /\ ~status /\ WellFormed(stdout)) => result = Err("CargoFail")

C1_Witness ==
    /\ Returned /\ ~status /\ WellFormed(stdout)
    /\ \E i \in ArtifactIndexes(stdout) : stdout[i].filenames = <<P_so>>
    /\ result = Err("CargoFail")

\* C2: last-wins.  While parse_output runs, the retained artifact is the most
\* recent artifact message among the items taken so far (none when there is
\* none); once a well-formed stream with at least one artifact message is
\* exhausted, the artifact examined is the last one of the stream, whatever
\* lies before, between or after the artifact messages.
C2_LastArtifactWins ==
    LET seen == ArtifactIndexes(SubSeq(stdout, 1, pos - 1))
    IN /\ request.entry = "parse_output" =>
            artifact = IF seen = {} THEN None
                       ELSE [some |-> TRUE, filenames |-> stdout[MaxOf(seen)].filenames]
       /\ (Returned /\ WellFormed(stdout) /\ ArtifactIndexes(stdout) # {}) =>
            /\ artifact.some
            /\ artifact.filenames = stdout[MaxOf(ArtifactIndexes(stdout))].filenames
            /\ status => result = SelectCdylib(stdout[MaxOf(ArtifactIndexes(stdout))].filenames)

C2_Witness ==
    /\ Returned /\ WellFormed(stdout)
    /\ Cardinality(ArtifactIndexes(stdout)) >= 2
    /\ stdout[MinOf(ArtifactIndexes(stdout))].filenames
         # stdout[MaxOf(ArtifactIndexes(stdout))].filenames
    /\ \E i, j, k \in 1..Len(stdout) :
          /\ i < j /\ j < k
          /\ stdout[i].shape = "compiler-artifact"
          /\ stdout[j].shape = "compiler-message"
          /\ stdout[k].shape = "compiler-artifact"
    /\ stdout[Len(stdout)].shape = "compiler-message"
    /\ artifact.filenames = stdout[MaxOf(ArtifactIndexes(stdout))].filenames

\* C3 (as claimed): an undecodable line makes parse_output return
\* MessageDecodeError at that line: the diagnostics printed and the artifact
\* retained are those of the lines before it, and nothing of a later line is
\* printed, stored or examined.
C3_UndecodableLineHalts ==
    (Returned /\ ~(\A i \in 1..Len(stdout) : ~Undecodable(stdout[i]))) =>
        /\ result = Err("MessageDecodeError")
        /\ pos = Len(Decodable(stdout)) + 1
        /\ stderr = DiagnosticTexts(Decodable(stdout))
        /\ LET before == ArtifactIndexes(Decodable(stdout))
           IN artifact = IF before = {} THEN None
                         ELSE [some |-> TRUE, filenames |-> stdout[MaxOf(before)].filenames]

\* C4: a successful exit status with a well-formed stream holding no artifact
\* message gives CargoFail.
C4_NoArtifactBuildFailed ==
    (Returned /\ status /\ WellFormed(stdout) /\ ArtifactIndexes(stdout) = {}) =>
        result = Err("CargoFail")

C4_Witness ==
    /\ Returned /\ status /\ WellFormed(stdout) /\ ArtifactIndexes(stdout) = {}
    /\ \E i \in 1..Len(stdout) : stdout[i].shape = "compiler-message"
    /\ \E i \in 1..Len(stdout) : stdout[i].shape = "build-finished"
    /\ result = Err("CargoFail")

\* C5: on success with a well-formed stream, when the last artifact lists a
\* shared library, parse_output returns the first listed filename that is one,
\* unchanged; the filenames before it are not shared libraries.
C5_FirstCdylibReturned ==
    (Returned /\ status /\ WellFormed(stdout) /\ ArtifactIndexes(stdout) # {}) =>
        LET fl == stdout[MaxOf(ArtifactIndexes(stdout))].filenames
            M == {i \in 1..Len(fl) : fl[i] \in SharedLibraryPaths}
        IN M # {} => result = [kind |-> "Ok", path |-> fl[MinOf(M)]]

C5_Witness ==
    /\ Returned /\ status /\ WellFormed(stdout) /\ ArtifactIndexes(stdout) # {}
    /\ LET fl == stdout[MaxOf(ArtifactIndexes(stdout))].filenames
       IN /\ Len(fl) = 3
          /\ fl[1] = P_d
          /\ fl[2] = P_rel
          /\ fl[3] = P_rlib
          /\ result = [kind |-> "Ok", path |-> P_rel]

\* C6: on success with a well-formed stream holding an artifact message, the
\* result is CdylibNotFound exactly when the last artifact lists no shared
\* library, whatever an earlier artifact listed.
C6_CdylibNotFoundIffNoCdylib ==
    (Returned /\ status /\ WellFormed(stdout) /\ ArtifactIndexes(stdout) # {}) =>
        LET fl == stdout[MaxOf(ArtifactIndexes(stdout))].filenames
        IN (result = Err("CdylibNotFound"))
              <=> (\A i \in 1..Len(fl) : fl[i] \notin SharedLibraryPaths)

C6_Witness ==
    /\ Returned /\ status /\ WellFormed(stdout)
    /\ Cardinality(ArtifactIndexes(stdout)) = 2
    /\ stdout[MinOf(ArtifactIndexes(stdout))].filenames = <<P_so>>
    /\ stdout[MaxOf(ArtifactIndexes(stdout))].filenames = <<P_hidden, P_ver, P_dir>>
    /\ result = Err("CdylibNotFound")

\* C10 (as claimed): when parse_output returns, the diagnostics written to
\* standard error are those of the lines before the first undecodable line (of
\* the whole stream when every line decodes), in stream order, each once,
\* whatever the exit status and the result.
C10_DiagnosticsUpToUndecodableLine ==
    Returned => stderr = DiagnosticTexts(Decodable(stdout))

-----------------------------------------------------------------------------
(* Properties of the build entry points *)

\* The command has been constructed.
Constructed == pc \notin {"start", "probed"}

IndexesOf(a, arg) == {i \in 1..Len(a) : a[i] = arg}

\* The names of the list, in list order, with a comma between neighbours
\* (every feature name of the model is one token).
CommaSeparated(list) ==
    [i \in 1..(IF list = <<>> THEN 0 ELSE 2 * Len(list) - 1) |->
        IF i % 2 = 1 THEN list[(i + 1) \div 2][1] ELSE ","]

\* C7: with a feature list, the arguments hold --no-default-features, --features
\* and the comma-joined list once, one after the other; without one, neither flag.
C7_FeatureFlags ==
    Constructed =>
        LET N == IndexesOf(args, <<"--no-default-features">>)
            F == IndexesOf(args, <<"--features">>)
        IN IF request.features.some
           THEN \E i \in 1..(Len(args) - 2) :
                   /\ N = {i}
                   /\ F = {i + 1}
                   /\ args[i + 2] = CommaSeparated(request.features.list)
           ELSE N = {} /\ F = {}

C7_Witness ==
    /\ pc = "built"
    /\ request.entry = "build_self_cdylib"
    /\ request.features.list = << <<"a">>, <<"b">> >>
    /\ args = << <<"build">>, <<"--message-format=json">>, <<"--no-default-features">>,
                 <<"--features">>, <<"a", ",", "b">>, <<"--lib">> >>

\* C8: --offline is an argument exactly when the probe ran and exited
\* successfully, and then it is the first one, right before build; a probe that
\* could not be started or failed gives no error: the command is constructed and
\* the only launch error is that of the build process itself.
C8_OfflineGating ==
    Constructed =>
        LET O == IndexesOf(args, <<"--offline">>)
            B == IndexesOf(args, <<"build">>)
        IN /\ (O # {}) <=> (probe = "exit_success")
           /\ IF probe = "exit_success" THEN O = {1} /\ B = {2} ELSE B = {1}
           /\ pc = "built" => result = Pending
           /\ result = Err("Cargo") => spawned = "error"

C8_Witness ==
    /\ pc = "done"
    /\ probe = "exit_failure"
    /\ IndexesOf(args, <<"--offline">>) = {}
    /\ args[1] = <<"build">>
    /\ spawned = "ok"
    /\ result = [kind |-> "Ok", path |-> P_so]

\* C9: when the build process cannot be started the entry point returns
\* Error::Cargo at once, parse_output having taken no item, printed nothing and
\* stored nothing; a process that ran never gives Error::Cargo, and one that ran
\* and failed gives CargoFail or the error of the stream.
C9_LaunchError ==
    /\ spawned = "error" =>
          /\ pc = "done"
          /\ result = Err("Cargo")
          /\ stderr = <<>> /\ pos = 1 /\ artifact = None
    /\ (pc = "done" /\ spawned = "ok") => result.kind # "Cargo"
    /\ (pc = "done" /\ spawned = "ok" /\ ~status) =>
          result.kind \in {"CargoFail", "MessageDecodeError"}

C9_Witness ==
    /\ pc = "done"
    /\ spawned = "error"
    /\ request.entry = "build_example"
    /\ result = Err("Cargo")
    /\ stderr = <<>>

====
